---- MODULE Spec2Model ----
(***************************************************************************)
(* Price monitoring bot (src/bot.py): the poll loop                        *)
(* check_prices_periodically, the heartbeat_watcher, the chat command      *)
(* handlers and the pure helpers they use.                                 *)
(*                                                                         *)
(* Time is a discrete clock `now` in seconds.  The three tasks are asyncio *)
(* coroutines: the code between two awaits runs atomically, so every       *)
(* action below is one such stretch of code.  A vendor request in flight   *)
(* may take any time; asyncio.sleep wakes on time (the clock cannot pass a *)
(* due wake-up) and a chat send completes within the clock's granularity.  *)
(*                                                                         *)
(* Specifications:                                                         *)
(*   Spec        the three tasks together, against a vendor with one offer *)
(*   DetectSpec  the poll loop alone, two offers, three cycles             *)
(*   OutageSpec  poll loop and watcher in a vendor outage, unbounded time, *)
(*               with the fairness of the event loop                       *)
(*   HealthSpec  /health against the heartbeat, with and without watcher   *)
(*   FrameSpec   the three tasks over two poll cycles, two offers, /prices *)
(*   ChunksSpec  chunks called on its own                                  *)
(*   PickSpec    pick_buyer_price called on its own                        *)
(***************************************************************************)
EXTENDS Integers, Sequences, FiniteSets, TLC

(* ------------------------------ bounds --------------------------------- *)
\* Silence threshold in minutes (environment variable, default 180).
HEARTBEAT_MINUTES == 2
\* Clock ticks the model runs beyond two full alert periods.
ExtraTicks == 1
\* Longest price response (number of items).
MaxItems == 2
\* chunks: most lines in a call, longest line, largest max_len
MaxLines == 3
MaxLineLen == 2
MaxLimit == 4

(* ------------------------- program constants --------------------------- *)
POLL_SLEEP == 300
BACKOFF_SLEEP == 60
WATCH_SLEEP == 60
\* ids of the chat recipients of change notifications
ADMIN_IDS == {1, 2}
\* HEARTBEAT_CHAT_ID as configured: a chat id, or 0 for none
HeartbeatChatIds == {0, 1}
\* allow-list of offers (empty: everything is monitored)
MONITOR_OFFER_IDS == {}

\* timedelta(minutes=HEARTBEAT_MINUTES), in seconds
threshold == HEARTBEAT_MINUTES * 60

\* The clock advances in steps of the shortest sleep.
ClockStep == BACKOFF_SLEEP

Offers == {"A", "B"}

(* --------------------------- raw JSON values --------------------------- *)
\* A JSON scalar as _to_int sees it: None, an int, a float or a numeric string
\* (both held in tenths), or a string that does not parse as a number.
RawNone == [t |-> "none", v |-> 0]
RawInt(n) == [t |-> "int", v |-> n]
RawFloat(tenths) == [t |-> "float", v |-> tenths]
RawStr(tenths) == [t |-> "str", v |-> tenths]
RawBad == [t |-> "bad", v |-> 0]

\* Python's round(): nearest integer, ties to the even one (num/den, den > 0).
RoundHalfEven(num, den) ==
  LET q == num \div den
      r == num % den
  IN  IF 2 * r < den THEN q
      ELSE IF 2 * r > den THEN q + 1
      ELSE IF q % 2 = 0 THEN q ELSE q + 1

_to_int(v) ==
  CASE v.t = "none" -> 0
    [] v.t = "int" -> v.v
    [] v.t = "float" -> RoundHalfEven(v.v, 10)
    [] v.t = "str" -> RoundHalfEven(v.v, 10)
    [] OTHER -> 0

Max(a, b) == IF a >= b THEN a ELSE b

\* (mutant) the regular price preferred whenever there is one
BuyerPricePreferRegular(marketing_price, regular_price) ==
  IF regular_price > 0 THEN regular_price ELSE marketing_price

\* line 58
BuyerPrice(marketing_price, regular_price) ==
  IF marketing_price > 0 THEN marketing_price ELSE regular_price

\* (price, old_price, discount_percent) of one price item
pick_buyer_price(item) ==
  LET p == item.price
      marketing_price == _to_int(p.marketing_price)
      regular_price == _to_int(p.price)
      old_price == _to_int(p.old_price)
      price == BuyerPrice(marketing_price, regular_price)
      discount == IF old_price # 0 /\ price # 0 THEN Max(old_price - price, 0) ELSE 0
      discount_pct == IF old_price # 0
                        THEN IF old_price > 0
                               THEN RoundHalfEven(discount * 100, old_price)
                               ELSE 0 - RoundHalfEven(discount * 100, 0 - old_price)
                        ELSE 0
  IN  <<price, old_price, discount_pct>>

(* ------------------------------ chunks --------------------------------- *)
\* A str is a sequence of characters; "\n" is the newline.
Chars == {"a", "b"}
Newline == "\n"

\* (mutant) the newline forgotten in the test
OverflowsIgnoringNewline(block, line, max_len) == Len(block) + Len(line) > max_len

\* line 75: the block would pass max_len with this line and its newline
Overflows(block, line, max_len) == Len(block) + Len(line) + 1 > max_len

\* the for loop of chunks (lines 74-80); `block` is the local `cur`
RECURSIVE ChunksLoop(_, _, _, _)
ChunksLoop(lines, max_len, blocks, block) ==
  IF lines = <<>>
    THEN IF block # <<>> THEN Append(blocks, block) ELSE blocks
    ELSE LET line == Head(lines)
             flush == Overflows(block, line, max_len)
         IN  ChunksLoop(Tail(lines), max_len,
                        IF flush THEN Append(blocks, block) ELSE blocks,
                        (IF flush THEN <<>> ELSE block) \o line \o <<Newline>>)

chunks(lines, max_len) == ChunksLoop(lines, max_len, <<>>, <<>>)

(* ------------------------- vendor responses ---------------------------- *)
\* Price blocks the vendor sends in this model: a marketing price (100),
\* a regular price only, sent as text (120), and nothing usable (0).
Block(m, p, o) == [marketing_price |-> m, price |-> p, old_price |-> o]
PriceBlocks ==
  { Block(RawInt(100), RawInt(120), RawInt(150)),
    Block(RawNone, RawStr(1200), RawNone),
    Block(RawBad, RawNone, RawNone) }

\* One element of the "items" array of the price response: a JSON object with
\* an offer_id and a price block, or an element that is not an object.
Item(o, b) == [dict |-> TRUE, offer_id |-> o, price |-> b]
NotADict == [dict |-> FALSE, offer_id |-> "", price |-> Block(RawNone, RawNone, RawNone)]
ItemsOf(offers) == {Item(o, b) : o \in offers, b \in PriceBlocks}

\* The vendor lists every offer once: no two items of a response share an
\* offer_id.  At most one element is malformed.
WellFormed(s) ==
  /\ \A i, j \in DOMAIN s : (i # j /\ s[i].dict /\ s[j].dict) => s[i].offer_id # s[j].offer_id
  /\ \A i, j \in DOMAIN s : (~s[i].dict /\ ~s[j].dict) => i = j
AllResponses ==
  { s \in UNION {[1..n -> ItemsOf(Offers) \cup {NotADict}] : n \in 0..MaxItems} : WellFormed(s) }
\* the responses to a request for the prices of `offers`
Responses(offers) ==
  { s \in AllResponses : \A i \in DOMAIN s : s[i].dict => s[i].offer_id \in offers }

(* ------------------------------- state --------------------------------- *)
VARIABLES
  now,              \* datetime.now(), seconds since the process started
  last_activity,    \* bot.py:36
  last_cycle_at,    \* bot.py:37, Optional: <<>> is None, <<t>> a time
  previous_prices,  \* bot.py:38, a dict: a function on the offers stored
  pollPc,           \* check_prices_periodically: "products", "prices", "items", "sleep"
  pollWake,         \* when the poll loop's asyncio.sleep ends
  products,         \* poll loop local: offers of the filtered product list
  pending,          \* poll loop: items of the price response not yet iterated
  cur,              \* poll loop locals of the last loop body: offer, price, old, sends
  cycle,            \* the running cycle: how it ended, touch notes, changes, sends
  seenPrice,        \* history: the last price observed for each offer observed
  undelivered,      \* history: offers whose last notification failed for some admin
  hbPc,             \* heartbeat_watcher: "off", "sleep", "alerting"
  hbWake,           \* when the watcher's asyncio.sleep ends
  alerts,           \* history: times at which the watcher sent (or tried) an alert
  alertFailed,      \* history: the send of the last alert raised
  cmdPc,            \* prices_cmd in flight: "idle", "products", "prices"
  cmdProducts,      \* prices_cmd local: offers of the filtered product list
  handled,          \* the chat message handled last: command, reply, outcome
  outage,           \* vendor outage: "none", "list" or "price", and when it began
  args,             \* a helper called on its own: its name and arguments
  returned          \* what that call returned: <<>> before it returns, <<value>> after

vars == <<now, last_activity, last_cycle_at, previous_prices, pollPc, pollWake,
          products, pending, cur, cycle, seenPrice, undelivered, hbPc, hbWake,
          alerts, alertFailed, cmdPc, cmdProducts, handled, outage, args, returned>>

botVars == <<now, last_activity, last_cycle_at, previous_prices, pollPc, pollWake,
             products, pending, cur, cycle, seenPrice, undelivered, hbPc, hbWake,
             alerts, alertFailed, cmdPc, cmdProducts, handled, outage>>

pollVars == <<pollPc, pollWake, products, pending, cur, cycle, seenPrice,
              undelivered, previous_prices, last_cycle_at>>
hbVars == <<hbPc, hbWake, alerts, alertFailed>>
cmdVars == <<cmdPc, cmdProducts, handled>>
callVars == <<args, returned>>

None == <<>>
Some(x) == <<x>>

\* dict.get(key): None when the key is absent
DictGet(d, k) == IF k \in DOMAIN d THEN Some(d[k]) ELSE None
\* (mutant) the dict rebuilt from the one key: d = {key: value}
DictOnly(d, k, x) == [o \in {k} |-> x]

\* d[key] = value
DictSet(d, k, x) == [o \in DOMAIN d \cup {k} |-> IF o = k THEN x ELSE d[o]]
EmptyDict == [o \in {} |-> 0]

NoCur == [offer |-> "", price |-> 0, old |-> None, prev |-> None,
          attempted |-> {}, failed |-> {}, owed |-> FALSE, valid |-> FALSE]
\* a cycle as it starts: no result yet, no touch, no change, no send; left is
\* the number of items still to iterate, cycleAt0 is last_cycle_at at the start
NewCycle == [result |-> "running", notes |-> {}, changes |-> 0,
             sent |-> [a \in ADMIN_IDS |-> 0], left |-> 0, cycleAt0 |-> None]
NoMessage == [cmd |-> "none", reply |-> "none", ok |-> FALSE, lines |-> 0, silence |-> 0,
              failure |-> "none"]
NoOutage == [kind |-> "none", since |-> 0]

\* (mutant) a clock reading taken before the last sleep
touch_alive_stale == now - WATCH_SLEEP

\* touch_alive(note): last_activity = datetime.now()
touch_alive == now

\* filter_to_monitored, on the offers of the product list
filter_to_monitored(items) ==
  IF MONITOR_OFFER_IDS = {} THEN items
  ELSE {it \in items : it \in MONITOR_OFFER_IDS}

(* ------------------- check_prices_periodically ------------------------- *)
\* asyncio.sleep after a fetch that returned nothing (lines 289, 299)
SleepAfterFailedFetch == BACKOFF_SLEEP
\* (mutant) a `continue` after the backoff sleep in the except clause
SleepAfterExceptionBackoff == BACKOFF_SLEEP
\* the except clause falls through to the sleep that ends every cycle (line 321)
SleepAfterException == POLL_SLEEP
SleepAfterCycle == POLL_SLEEP

\* (mutant) the touch moved above the status check
ProductsTouchesAlways(status200) == {"ozon_products"}

\* get_ozon_products touches ("ozon_products") only past the page loop, which
\* a status other than 200 leaves by `return []`
ProductsTouches(status200) == IF status200 THEN {"ozon_products"} ELSE {}
\* (mutant) the touch moved above the status check
PricesTouchesAlways(status200) == {"ozon_prices"}

\* get_ozon_prices touches ("ozon_prices") only after a status 200
PricesTouches(status200) == IF status200 THEN {"ozon_prices"} ELSE {}

\* last_activity after the touch_alive calls noted in `touches`
Touched(touches) == IF touches = {} THEN last_activity ELSE touch_alive

\* (mutant) last_cycle_at assigned at the top of the cycle
CycleAtAlways(result) == Some(now)

\* last_cycle_at is assigned at line 316 only, past the item loop
CycleAtAfter(result) == IF result = "ok" THEN Some(now) ELSE last_cycle_at

\* the cycle ends as `result` and the loop sleeps d seconds
PollEnds(d, result, touches) ==
  /\ pollPc' = "sleep"
  /\ pollWake' = now + d
  /\ products' = {}
  /\ pending' = <<>>
  /\ cur' = NoCur
  /\ cycle' = [cycle EXCEPT !.result = result, !.notes = @ \cup touches]
  /\ last_activity' = Touched(touches)
  /\ last_cycle_at' = CycleAtAfter(result)

\* what the vendor may answer while an outage lasts
ListMayFail == outage.kind # "price"
ListMayAnswer == outage.kind # "list"
PriceMayAnswer == outage.kind # "price"

\* get_ozon_products: a page answers with a status other than 200: the
\* function returns [], the loop sleeps the backoff.
PollProductsNon200 ==
  /\ pollPc = "products"
  /\ ListMayFail
  /\ PollEnds(SleepAfterFailedFetch, "list_non200", ProductsTouches(FALSE))
  /\ UNCHANGED <<callVars, now, previous_prices, seenPrice, undelivered, hbVars, cmdVars, outage>>

\* get_ozon_products raises (network error, body that is no JSON).
PollProductsRaise ==
  /\ pollPc = "products"
  /\ outage.kind = "none"
  /\ PollEnds(SleepAfterException, "exception", {})
  /\ UNCHANGED <<callVars, now, previous_prices, seenPrice, undelivered, hbVars, cmdVars, outage>>

\* get_ozon_products returns the catalogue `items` (status 200 on every page);
\* an empty catalogue sends the loop to the backoff sleep.
PollProductsOk(items) ==
  /\ pollPc = "products"
  /\ ListMayAnswer
  /\ outage.kind = "price" => items # {}
  /\ IF items = {}
       THEN PollEnds(SleepAfterFailedFetch, "list_empty", ProductsTouches(TRUE))
       ELSE /\ pollPc' = "prices"
            /\ products' = filter_to_monitored(items)
            /\ cycle' = [cycle EXCEPT !.notes = @ \cup ProductsTouches(TRUE)]
            /\ last_activity' = Touched(ProductsTouches(TRUE))
            /\ UNCHANGED <<pollWake, pending, cur, last_cycle_at>>
  /\ UNCHANGED <<callVars, now, previous_prices, seenPrice, undelivered, hbVars, cmdVars, outage>>

\* get_ozon_prices: status other than 200: returns None.
PollPricesNon200 ==
  /\ pollPc = "prices"
  /\ PollEnds(SleepAfterFailedFetch, "price_non200", PricesTouches(FALSE))
  /\ UNCHANGED <<callVars, now, previous_prices, seenPrice, undelivered, hbVars, cmdVars, outage>>

PollPricesRaise ==
  /\ pollPc = "prices"
  /\ outage.kind = "none"
  /\ PollEnds(SleepAfterException, "exception", {})
  /\ UNCHANGED <<callVars, now, previous_prices, seenPrice, undelivered, hbVars, cmdVars, outage>>

\* get_ozon_prices returns a body with status 200.  An empty body ({}) is
\* falsy: backoff sleep.  Otherwise the item loop starts.
PollPricesOk(emptyBody, resp) ==
  /\ pollPc = "prices"
  /\ PriceMayAnswer
  /\ IF emptyBody
       THEN PollEnds(SleepAfterFailedFetch, "price_empty", PricesTouches(TRUE))
       ELSE /\ pollPc' = "items"
            /\ pending' = resp
            /\ cycle' = [cycle EXCEPT !.notes = @ \cup PricesTouches(TRUE),
                                      !.left = Len(resp)]
            /\ last_activity' = Touched(PricesTouches(TRUE))
            /\ UNCHANGED <<pollWake, products, cur, last_cycle_at>>
  /\ UNCHANGED <<callVars, now, previous_prices, seenPrice, undelivered, hbVars, cmdVars, outage>>

\* (mutant) the `old is not None` test dropped
ChangedIgnoringColdStart(old, price) == old = None \/ old[1] # price

\* line 306: a stored price exists and differs from the observed one
Changed(old, price) == old # None /\ old[1] # price

\* (mutant) the assignment replaced by setdefault
StoredOnlyWhenNew(d, offer, price) == IF offer \in DOMAIN d THEN d ELSE DictSet(d, offer, price)

\* line 314: the observed price is stored, whatever it is
StoredAfter(d, offer, price) == DictSet(d, offer, price)

\* (mutant) a break after the first send
RecipientsFirstAdminOnly(changed) ==
  IF changed THEN {CHOOSE a \in ADMIN_IDS : \A b \in ADMIN_IDS : a <= b} ELSE {}

\* lines 309-313: one send_message per admin, each in its own try
Recipients(changed) == IF changed THEN ADMIN_IDS ELSE {}

\* (mutant) the try placed around the for loop: the first failure ends it
AttemptedUntilFailure(to, failed) == {a \in to : \A f \in failed : a <= f}

\* lines 309-313: the except clause is inside the for loop, so the admins
\* `to` are all sent to, whichever sends fail
Attempted(to, failed) == to

\* One pass of the loop body (lines 302-314) over a JSON object; `failed` are
\* the admins whose send_message raises.
PollItem(failed) ==
  /\ pollPc = "items"
  /\ pending # <<>>
  /\ Head(pending).dict
  /\ LET it == Head(pending)
         offer == it.offer_id
         price == pick_buyer_price(it)[1]
         old == DictGet(previous_prices, offer)
         to == Recipients(Changed(old, price))
         done == Attempted(to, failed)
     IN  /\ failed \subseteq to
         /\ previous_prices' = StoredAfter(previous_prices, offer, price)
         /\ seenPrice' = DictSet(seenPrice, offer, price)
         /\ undelivered' = IF failed # {} THEN undelivered \cup {offer}
                           ELSE IF to # {} THEN undelivered \ {offer}
                           ELSE undelivered
         /\ cur' = [offer |-> offer, price |-> price, old |-> old,
                    prev |-> DictGet(seenPrice, offer),
                    attempted |-> done, failed |-> failed,
                    owed |-> offer \in undelivered, valid |-> TRUE]
         /\ cycle' = [cycle EXCEPT
                        !.left = @ - 1,
                        !.changes = IF Changed(old, price) THEN @ + 1 ELSE @,
                        !.sent = [a \in ADMIN_IDS |-> IF a \in done THEN @[a] + 1 ELSE @[a]]]
  /\ pending' = Tail(pending)
  /\ UNCHANGED <<callVars, now, last_activity, last_cycle_at, pollPc, pollWake, products,
                 hbVars, cmdVars, outage>>

\* The loop reaches an element that is no JSON object: it.get raises, the
\* except clause of the cycle catches it.
PollItemRaise ==
  /\ pollPc = "items"
  /\ pending # <<>>
  /\ ~Head(pending).dict
  /\ PollEnds(SleepAfterException, "exception", {})
  /\ UNCHANGED <<callVars, now, previous_prices, seenPrice, undelivered, hbVars, cmdVars, outage>>

\* lines 316-317, 321: every item iterated
PollCycleOk ==
  /\ pollPc = "items"
  /\ pending = <<>>
  /\ PollEnds(SleepAfterCycle, "ok", {"cycle_ok"})
  /\ UNCHANGED <<callVars, now, previous_prices, seenPrice, undelivered, hbVars, cmdVars, outage>>

\* (mutant) the sleep dropped: the loop goes round at once
SleepOverAtOnce(t, wake) == TRUE

\* await asyncio.sleep(d) returns once d seconds have passed (lines 289, 299, 321)
SleepOver(t, wake) == t >= wake

\* asyncio.sleep returns: the next cycle starts
PollWake ==
  /\ pollPc = "sleep"
  /\ SleepOver(now, pollWake)
  /\ pollPc' = "products"
  /\ cycle' = [NewCycle EXCEPT !.cycleAt0 = last_cycle_at]
  /\ UNCHANGED <<callVars, now, last_activity, last_cycle_at, previous_prices, pollWake, products,
                 pending, cur, seenPrice, undelivered, hbVars, cmdVars, outage>>

(* --------------------------- heartbeat --------------------------------- *)
\* (mutant) the touch after the alert left out
AfterAlertUntouched(delivered, activity) == activity

\* (mutant) the touch placed inside the try, after the send
AfterAlertOnlyDelivered(delivered, activity) == IF delivered THEN touch_alive ELSE activity

\* line 340: the touch follows the inner try, whether the send raised or not
AfterAlert(delivered, activity) == touch_alive

\* (mutant) strict comparisons
human_health_strict(t, activity, cycle_at) ==
  LET silence_td == t - activity
      hb == IF silence_td < threshold THEN "OK"
            ELSE IF silence_td < threshold + HEARTBEAT_MINUTES * 60 THEN "WARN"
            ELSE "SILENT"
      last_text == IF cycle_at # None THEN Some((t - cycle_at[1]) \div 60) ELSE None
  IN  <<hb, last_text>>

\* human_health(now): (silence status, minutes since the last good cycle)
human_health(t, activity, cycle_at) ==
  LET silence_td == t - activity
      hb == IF silence_td <= threshold THEN "OK"
            ELSE IF silence_td <= threshold + HEARTBEAT_MINUTES * 60 THEN "WARN"
            ELSE "SILENT"
      last_text == IF cycle_at # None THEN Some((t - cycle_at[1]) \div 60) ELSE None
  IN  <<hb, last_text>>

\* lines 325-327: without a chat id the watcher returns at once
WatcherStart(chat_id) == IF chat_id = 0 THEN "off" ELSE "sleep"

\* (mutant) the threshold itself counted as silence
SilentAtThreshold(t, activity) == t - activity >= threshold

\* line 331: the silence exceeds the threshold
Silent(t, activity) == t - activity > threshold

\* One evaluation of the watcher loop.  In silence it starts sending the
\* alert; otherwise it sleeps again.
WatcherEval ==
  /\ hbPc = "sleep"
  /\ now >= hbWake
  /\ IF Silent(now, last_activity)
       THEN /\ hbPc' = "alerting"
            /\ alerts' = Append(alerts, now)
            /\ UNCHANGED <<hbWake, alertFailed>>
       ELSE /\ hbWake' = now + WATCH_SLEEP
            /\ UNCHANGED <<hbPc, alerts, alertFailed>>
  /\ UNCHANGED <<callVars, now, last_activity, pollVars, cmdVars, outage>>

\* send_message returned or raised (the exception is logged): lines 338-343
WatcherAlertDone(delivered) ==
  /\ hbPc = "alerting"
  /\ last_activity' = AfterAlert(delivered, last_activity)
  /\ alertFailed' = ~delivered
  /\ hbPc' = "sleep"
  /\ hbWake' = now + WATCH_SLEEP
  /\ UNCHANGED <<callVars, now, alerts, pollVars, cmdVars, outage>>

(* ------------------------- command handlers ---------------------------- *)
\* No chat message arrives during an outage (the silence the watcher is for).
ChatOpen == outage.kind = "none"

\* what a handler did: its reply, whether it ran to its end, the price lines it
\* sent, (for /health) the silence it judged and (for /prices) how the vendor
\* call failed: "non200", "exception" or "none"
Handled(cmd, reply, ok, lines) ==
  [cmd |-> cmd, reply |-> reply, ok |-> ok, lines |-> lines, silence |-> 0,
   failure |-> "none"]

\* the transport failure behind an empty result of a vendor call
Failure(non200) == IF non200 THEN "non200" ELSE "none"

\* /start: the answer, then the touch; `sent` is FALSE when the answer raises
start_cmd(sent) ==
  /\ ChatOpen
  /\ handled' = Handled("start", "help", sent, 0)
  /\ last_activity' = IF sent THEN touch_alive ELSE last_activity
  /\ UNCHANGED <<callVars, now, pollVars, hbVars, cmdPc, cmdProducts, outage>>

\* /monitor: answers what is monitored; no touch_alive on either branch
MonitorTouch(activity, t) == activity
monitor_cmd(sent) ==
  /\ ChatOpen
  /\ handled' = Handled("monitor", IF MONITOR_OFFER_IDS = {} THEN "all" ELSE "listed", sent, 0)
  /\ last_activity' = IF sent THEN MonitorTouch(last_activity, now) ELSE last_activity
  /\ UNCHANGED <<callVars, now, pollVars, hbVars, cmdPc, cmdProducts, outage>>

\* /health and /ping
health_cmd(cmd, sent) ==
  /\ ChatOpen
  /\ handled' = [Handled(cmd, human_health(now, last_activity, last_cycle_at)[1], sent, 0)
                   EXCEPT !.silence = now - last_activity]
  /\ last_activity' = IF sent THEN touch_alive ELSE last_activity
  /\ UNCHANGED <<callVars, now, pollVars, hbVars, cmdPc, cmdProducts, outage>>

\* any other message: the touch comes first, text that is no command is greeted
any_message(is_command, sent) ==
  /\ ChatOpen
  /\ is_command => sent
  /\ handled' = Handled(IF is_command THEN "unknown" ELSE "text",
                        IF is_command THEN "none" ELSE "greeting", sent, 0)
  /\ last_activity' = touch_alive
  /\ UNCHANGED <<callVars, now, pollVars, hbVars, cmdPc, cmdProducts, outage>>

\* /prices arrives: the handler asks for the product list
prices_cmd ==
  /\ ChatOpen
  /\ cmdPc = "idle"
  /\ cmdPc' = "products"
  /\ UNCHANGED <<callVars, now, last_activity, pollVars, hbVars, cmdProducts, handled, outage>>

\* prices_cmd, lines 205-208: no products (status other than 200, or an
\* empty catalogue, which get_ozon_products touches for)
PricesCmdNoProducts(non200, sent) ==
  /\ cmdPc = "products"
  /\ cmdPc' = "idle"
  /\ handled' = [Handled("prices", "no_products", sent, 0) EXCEPT !.failure = Failure(non200)]
  /\ last_activity' = IF non200 THEN last_activity ELSE touch_alive
  /\ UNCHANGED <<callVars, now, pollVars, hbVars, cmdProducts, outage>>

\* a vendor call of prices_cmd raises (session.post, resp.text or resp.json):
\* neither get_ozon_products, get_ozon_prices nor the handler has a try, so
\* the exception leaves the handler and no reply is sent
PricesCmdRaise ==
  /\ cmdPc \in {"products", "prices"}
  /\ cmdPc' = "idle"
  /\ cmdProducts' = {}
  /\ handled' = [Handled("prices", "raised", FALSE, 0) EXCEPT !.failure = "exception"]
  /\ UNCHANGED <<callVars, now, last_activity, pollVars, hbVars, outage>>

PricesCmdProducts(items) ==
  /\ cmdPc = "products"
  /\ items # {}
  /\ cmdPc' = "prices"
  /\ cmdProducts' = filter_to_monitored(items)
  /\ last_activity' = touch_alive
  /\ UNCHANGED <<callVars, now, pollVars, hbVars, handled, outage>>

\* lines 217-220: no prices (status other than 200, or an empty body)
PricesCmdNoPrices(non200, sent) ==
  /\ cmdPc = "prices"
  /\ cmdPc' = "idle"
  /\ cmdProducts' = {}
  /\ handled' = [Handled("prices", "no_prices", sent, 0) EXCEPT !.failure = Failure(non200)]
  /\ last_activity' = IF non200 THEN last_activity ELSE touch_alive
  /\ UNCHANGED <<callVars, now, pollVars, hbVars, outage>>

\* lines 225-241: one line per product that has a price item, sent in
\* chunks, then the touch.  An element that is no object raises at line 226.
PricesCmdReport(resp, sent) ==
  /\ cmdPc = "prices"
  /\ cmdPc' = "idle"
  /\ cmdProducts' = {}
  /\ LET raises == \E i \in DOMAIN resp : ~resp[i].dict
         n == Cardinality({o \in cmdProducts : \E i \in DOMAIN resp : resp[i].offer_id = o})
     IN  handled' = IF raises THEN Handled("prices", "raised", FALSE, 0)
                    ELSE Handled("prices", "lines", sent, n)
  /\ last_activity' = touch_alive
  /\ UNCHANGED <<callVars, now, pollVars, hbVars, outage>>

(* ------------------------------ clock ---------------------------------- *)
\* A sleep that is over wakes before the clock moves; the item loop and a
\* chat send finish within one step of the clock.
MayTick ==
  /\ ~(pollPc = "sleep" /\ pollWake <= now)
  /\ pollPc # "items"
  /\ ~(hbPc = "sleep" /\ hbWake <= now)
  /\ hbPc # "alerting"

\* what the clock's step forgets: the message just handled, the cycle just ended
CycleAfterTick == IF pollPc = "sleep" THEN [NewCycle EXCEPT !.result = "over"] ELSE cycle

Tick(horizon) ==
  /\ now + ClockStep <= horizon
  /\ MayTick
  /\ now' = now + ClockStep
  /\ handled' = NoMessage
  /\ cycle' = CycleAfterTick
  /\ UNCHANGED <<callVars, last_activity, last_cycle_at, previous_prices, pollPc, pollWake,
                 products, pending, cur, seenPrice, undelivered, hbVars, cmdPc,
                 cmdProducts, outage>>

\* The same step of the clock with the origin moved along: now stays and every
\* timestamp moves one step into the past, which leaves every difference the
\* code computes as it is.  A timestamp older than `horizon` stays there.
Shift(t, horizon) == Max(t - ClockStep, now - horizon)
ShiftOpt(t, horizon) == IF t = None THEN None ELSE Some(Shift(t[1], horizon))
ShiftSeq(ts, horizon) ==
  LET kept == {i \in DOMAIN ts : ts[i] - ClockStep >= now - horizon}
      drop == Len(ts) - Cardinality(kept)
  IN  [i \in 1..Cardinality(kept) |-> ts[i + drop] - ClockStep]

TickRelative(horizon) ==
  /\ MayTick
  /\ last_activity' = Shift(last_activity, horizon)
  /\ last_cycle_at' = ShiftOpt(last_cycle_at, horizon)
  /\ pollWake' = Shift(pollWake, horizon)
  /\ hbWake' = Shift(hbWake, horizon)
  /\ alerts' = ShiftSeq(alerts, horizon)
  /\ outage' = [outage EXCEPT !.since = IF outage.kind = "none" THEN @ ELSE Shift(@, horizon)]
  /\ handled' = NoMessage
  /\ cycle' = [CycleAfterTick EXCEPT !.cycleAt0 = ShiftOpt(@, horizon)]
  /\ UNCHANGED <<callVars, now, previous_prices, pollPc, products, pending, cur, seenPrice,
                 undelivered, hbPc, alertFailed, cmdPc, cmdProducts>>

(* ------------------------------ outage --------------------------------- *)
\* From here on the vendor answers every cycle with a status other than 200
\* (at the list endpoint, or at the price endpoint after a good list) and no
\* chat message arrives.
BeginOutage(kind) ==
  /\ outage.kind = "none"
  /\ pollPc \in {"sleep", "products"}
  /\ cmdPc = "idle"
  /\ outage' = [kind |-> kind, since |-> now]
  /\ UNCHANGED <<callVars, now, last_activity, pollVars, hbVars, cmdVars>>

(* --------------------------- specification ----------------------------- *)
NoCall == [fn |-> "none"]

\* the module as imported: lines 36-39, and the tasks main creates
InitBot ==
  /\ now = 0
  /\ last_activity = 0
  /\ last_cycle_at = None
  /\ previous_prices = EmptyDict
  /\ seenPrice = EmptyDict
  /\ undelivered = {}
  /\ pollPc = "products"
  /\ pollWake = 0
  /\ products = {}
  /\ pending = <<>>
  /\ cur = NoCur
  /\ cycle = NewCycle
  /\ hbPc \in {WatcherStart(c) : c \in HeartbeatChatIds}
  /\ hbWake = 0
  /\ alerts = <<>>
  /\ alertFailed = FALSE
  /\ cmdPc = "idle"
  /\ cmdProducts = {}
  /\ handled = NoMessage
  /\ outage = NoOutage

Init ==
  /\ InitBot
  /\ args = NoCall
  /\ returned = None

\* The poll loop against a vendor whose catalogue is one of `catalogues`
\* and whose price responses are among `answers`.
PollWith(catalogues, answers) ==
  \/ PollProductsNon200
  \/ PollProductsRaise
  \/ \E items \in catalogues : PollProductsOk(items)
  \/ PollPricesNon200
  \/ PollPricesRaise
  \/ PollPricesOk(TRUE, <<>>)
  \/ /\ pollPc = "prices"
     /\ \E resp \in answers \cap Responses(products) : PollPricesOk(FALSE, resp)
  \/ \E failed \in SUBSET ADMIN_IDS : PollItem(failed)
  \/ PollItemRaise
  \/ PollCycleOk
  \/ PollWake

Poll == PollWith(SUBSET Offers, AllResponses)

\* A vendor with one offer, for the specifications that are about the
\* interplay of the tasks and not about the prices.
OneOffer == {"A"}
OneOfferResponses == {s \in Responses(OneOffer) : Len(s) <= 1}
PollOneOffer == PollWith({{}, OneOffer}, OneOfferResponses)

Watcher ==
  \/ WatcherEval
  \/ \E d \in BOOLEAN : WatcherAlertDone(d)

CommandsWith(catalogues, answers) ==
  \/ \E sent \in BOOLEAN : start_cmd(sent)
  \/ \E sent \in BOOLEAN : monitor_cmd(sent)
  \/ \E c \in {"health", "ping"}, sent \in BOOLEAN : health_cmd(c, sent)
  \/ \E k, sent \in BOOLEAN : any_message(k, sent)
  \/ prices_cmd
  \/ \E n, sent \in BOOLEAN : PricesCmdNoProducts(n, sent)
  \/ PricesCmdRaise
  \/ \E items \in catalogues : PricesCmdProducts(items)
  \/ \E n, sent \in BOOLEAN : PricesCmdNoPrices(n, sent)
  \/ /\ cmdPc = "prices"
     /\ \E resp \in answers \cap Responses(cmdProducts), sent \in BOOLEAN :
          PricesCmdReport(resp, sent)

\* The three tasks together.
SpecMaxTime == threshold + WATCH_SLEEP
Next ==
  \/ PollOneOffer
  \/ Watcher
  \/ CommandsWith({{}, OneOffer}, OneOfferResponses)
  \/ Tick(SpecMaxTime)

Spec == Init /\ [][Next]_vars

\* The poll loop alone: no heartbeat chat configured, no chat message arrives.
DetectMaxTime == 2 * POLL_SLEEP + ExtraTicks * ClockStep
DetectInit == Init /\ hbPc = "off"
DetectNext == Poll \/ Tick(DetectMaxTime)
DetectSpec == DetectInit /\ [][DetectNext]_vars

\* A vendor outage that begins at some point, with a heartbeat chat configured,
\* over unbounded time.  The clock advances, a task whose sleep is over runs,
\* a vendor request is answered and a chat send returns.
OutageHorizon == threshold + WATCH_SLEEP + ExtraTicks * ClockStep
OutageInit == Init /\ hbPc = "sleep"
OutageNext ==
  \/ PollOneOffer
  \/ Watcher
  \/ any_message(TRUE, TRUE)
  \/ \E kind \in {"list", "price"} : BeginOutage(kind)
  \/ TickRelative(OutageHorizon)
OutageSpec ==
  /\ OutageInit
  /\ [][OutageNext]_vars
  /\ WF_vars(TickRelative(OutageHorizon))
  /\ WF_vars(PollOneOffer)
  /\ WF_vars(Watcher)

\* /health and /ping against the heartbeat alone (the vendor never answers),
\* with and without the watcher.
HealthMaxTime == 2 * threshold + WATCH_SLEEP + ExtraTicks * ClockStep
HealthNext ==
  \/ Watcher
  \/ \E c \in {"health", "ping"}, sent \in BOOLEAN : health_cmd(c, sent)
  \/ \E k, sent \in BOOLEAN : any_message(k, sent)
  \/ Tick(HealthMaxTime)
HealthSpec == Init /\ [][HealthNext]_vars

\* The three tasks against a vendor with two offers, each at one of two
\* prices, whose price responses hold at most one item, over one full poll
\* interval: the cycle after a completed cycle runs while /prices is answered
\* and the watcher evaluates.
TwoPrices == {b \in PriceBlocks : pick_buyer_price(Item("A", b))[1] > 0}
TwoPriceResponses ==
  {s \in AllResponses : Len(s) <= 1 /\ \A i \in DOMAIN s : s[i].dict => s[i].price \in TwoPrices}
PricesCommand ==
  \/ prices_cmd
  \/ \E n, sent \in BOOLEAN : PricesCmdNoProducts(n, sent)
  \/ PricesCmdRaise
  \/ PricesCmdProducts(Offers)
  \/ \E n, sent \in BOOLEAN : PricesCmdNoPrices(n, sent)
  \/ /\ cmdPc = "prices"
     /\ \E resp \in TwoPriceResponses \cap Responses(cmdProducts), sent \in BOOLEAN :
          PricesCmdReport(resp, sent)
FrameMaxTime == POLL_SLEEP
FrameNext ==
  \/ PollWith({Offers}, TwoPriceResponses)
  \/ Watcher
  \/ PricesCommand
  \/ Tick(FrameMaxTime)
FrameSpec == Init /\ [][FrameNext]_vars

(* ----------------------- the helpers on their own ---------------------- *)
\* chunks called on any lines of at most MaxLineLen characters, at most
\* MaxLines of them, with any max_len up to MaxLimit.
Strs(n) == UNION {[1..k -> Chars] : k \in 0..n}
ChunksCalls ==
  { [fn |-> "chunks", lines |-> ls, max_len |-> m] :
      ls \in UNION {[1..k -> Strs(MaxLineLen)] : k \in 0..MaxLines}, m \in 1..MaxLimit }

CallChunks ==
  /\ args.fn = "chunks"
  /\ returned = None
  /\ returned' = Some(chunks(args.lines, args.max_len))
  /\ UNCHANGED <<args, botVars>>

ChunksInit == InitBot /\ hbPc = "off" /\ args \in ChunksCalls /\ returned = None
ChunksSpec == ChunksInit /\ [][CallChunks]_vars

\* pick_buyer_price called on any price record whose fields are absent, zero,
\* negative, numbers (whole, or with a fraction) or strings.
RawValues ==
  {RawNone, RawBad} \cup {RawInt(n) : n \in {0 - 5, 0, 1, 90, 100}}
    \cup {RawFloat(t) : t \in {0 - 4, 4, 5, 15, 995}} \cup {RawStr(t) : t \in {0, 25, 900}}
PickCalls ==
  { [fn |-> "pick_buyer_price", item |-> Item("A", Block(m, p, o))] :
      m \in RawValues, p \in RawValues, o \in RawValues }

CallPick ==
  /\ args.fn = "pick_buyer_price"
  /\ returned = None
  /\ returned' = Some(pick_buyer_price(args.item))
  /\ UNCHANGED <<args, botVars>>

PickInit == InitBot /\ hbPc = "off" /\ args \in PickCalls /\ returned = None
PickSpec == PickInit /\ [][CallPick]_vars

(* ------------------------------ claims --------------------------------- *)
\* the alerts the watcher has sent since the outage began
AlertsInOutage == Cardinality({i \in DOMAIN alerts : alerts[i] >= outage.since})

\* C1: the loop body that observes an offer for the first time (no price of it
\* was ever observed) sends no notification and stores the observed price.
C1_ColdStartSuppressed ==
  (cur.valid /\ cur.prev = None) =>
    /\ cur.attempted = {}
    /\ DictGet(previous_prices, cur.offer) = Some(cur.price)

\* C1 witness: a first observation of an offer, in a cycle that follows a
\* completed cycle in which another offer was stored.
C1_Witness ==
  /\ cur.valid /\ cur.prev = None
  /\ last_cycle_at # None
  /\ Cardinality(DOMAIN previous_prices) = 2

\* C2: a change is notified (to every admin) exactly when a price is stored
\* for the offer and differs from the observed one; the stored price is the
\* price observed last, and the observed price overwrites it.
C2_ChangeReportedOnce ==
  cur.valid =>
    /\ cur.attempted = (IF cur.old # None /\ cur.old[1] # cur.price THEN ADMIN_IDS ELSE {})
    /\ cur.old = cur.prev
    /\ DictGet(previous_prices, cur.offer) = Some(cur.price)

\* C2 witness: 120 observed after 100, two completed cycles before it, and
\* the change notified.
C2_Witness ==
  /\ cur.valid /\ cur.prev = Some(100) /\ cur.price = 120
  /\ cur.attempted = ADMIN_IDS
  /\ now >= 2 * POLL_SLEEP

\* C3 (as claimed): an item whose buyer price is 0 sends no notification and
\* leaves the stored price of its offer as it was.
C3_ZeroPriceExcluded ==
  (cur.valid /\ cur.price = 0) =>
    /\ cur.attempted = {}
    /\ DictGet(previous_prices, cur.offer) = cur.old

\* C4 (as claimed): a completed cycle with one or more changes has sent each
\* admin exactly one notification.
C4_OneNotificationPerCycle ==
  (cycle.result = "ok" /\ cycle.changes >= 1) =>
    \A a \in ADMIN_IDS : cycle.sent[a] = 1

\* C4 (amended): in every cycle each admin is sent one notification per
\* changed offer.
C4_OneNotificationPerChange ==
  \A a \in ADMIN_IDS : cycle.sent[a] = cycle.changes

\* C4 witness: a completed cycle with two changes.
C4_Witness == cycle.result = "ok" /\ cycle.changes = 2

\* C5 (as claimed): a cycle ended by a status other than 200, at either
\* endpoint, has called touch_alive nowhere.
C5_Non200NeverTouches ==
  cycle.result \in {"list_non200", "price_non200"} => cycle.notes = {}

\* C5 (amended): a cycle ended by a status other than 200 at the list endpoint
\* has called touch_alive nowhere; one ended by a status other than 200 at the
\* price endpoint has touched once, after its product list arrived.
C5_OnlyListFailureLeavesHeartbeat ==
  /\ cycle.result = "list_non200" => cycle.notes = {}
  /\ cycle.result = "price_non200" => cycle.notes = {"ozon_products"}

\* C5 witness: a cycle ended by the list endpoint while last_activity is old.
C5_Witness == cycle.result = "list_non200" /\ last_activity < now

\* C6 (as claimed): in every outage, of the list endpoint or of the price
\* endpoint, the watcher sends an alert again and again.
C6_AnyOutageAlerts == (outage.kind # "none") ~> (hbPc = "alerting")

\* C6 (amended): in every outage of the list endpoint the watcher sends an
\* alert again and again.
C6_ListOutageAlerts == (outage.kind = "list") ~> (hbPc = "alerting")

\* C6 witness: the watcher sends its second alert of an outage of the list
\* endpoint.
C6_Witness == outage.kind = "list" /\ hbPc = "alerting" /\ AlertsInOutage >= 2

\* C7 (as claimed): after an exception in a cycle the loop sleeps the backoff.
C7_ExceptionSleepsBackoff ==
  cycle.result = "exception" => (pollPc = "sleep" /\ pollWake = now + BACKOFF_SLEEP)

\* C7 (amended): after an exception in a cycle the loop is alive and sleeps the
\* full poll interval.
C7_ExceptionSleepsFullInterval ==
  cycle.result = "exception" => (pollPc = "sleep" /\ pollWake = now + POLL_SLEEP)

\* C7 witness: an exception in the item loop, after an item was processed.
C7_Witness == cycle.result = "exception" /\ cycle.left >= 1 /\ previous_prices # EmptyDict

\* C8: last_cycle_at is the time a cycle completed with every item iterated;
\* a running cycle and a cycle that failed leave it as it was when the cycle
\* began, and after a fetch that failed with a status other than 200 the loop
\* sleeps the backoff.
C8_CycleStampOnlyOnSuccess ==
  /\ cycle.result = "ok" => (last_cycle_at = Some(now) /\ cycle.left = 0)
  /\ cycle.result \in {"running", "list_non200", "list_empty", "price_non200",
                       "price_empty", "exception"} => last_cycle_at = cycle.cycleAt0
  /\ cycle.result \in {"list_non200", "price_non200"} =>
       (pollPc = "sleep" /\ pollWake = now + BACKOFF_SLEEP)

\* C8 witness: the list endpoint fails after a cycle had completed.
C8_Witness ==
  cycle.result = "list_non200" /\ last_cycle_at # None /\ last_cycle_at[1] < now

\* C9: /health reports OK exactly up to the threshold, WARN exactly above it
\* up to twice the threshold, SILENT exactly beyond.
C9_HealthThresholds ==
  handled.cmd \in {"health", "ping"} =>
    LET d == handled.silence
    IN  /\ handled.reply = "OK" <=> d <= threshold
        /\ handled.reply = "WARN" <=> (threshold < d /\ d <= 2 * threshold)
        /\ handled.reply = "SILENT" <=> d > 2 * threshold

\* C9 witness: a silence of more than twice the threshold reported.
C9_Witness == handled.cmd = "health" /\ handled.reply = "SILENT"

\* C10 (as claimed): a message handled to the end (for /prices: with the
\* price lines sent) leaves last_activity at the current time.
C10_EveryMessageTouches ==
  (handled.cmd # "none" /\ handled.ok /\ handled.reply \notin {"no_products", "no_prices"})
    => last_activity = now

\* C11: no step of the poll loop, the watcher or a command handler moves
\* last_activity back: every step leaves it, or sets it to the current time,
\* which is never earlier.
C11_LastActivityMonotone == [][last_activity' >= last_activity]_vars

\* C11 witness: the watcher, the poll loop and a command handler have each
\* touched, the handler last, after time has passed.
C11_Witness ==
  /\ alerts # <<>>
  /\ cycle.notes # {}
  /\ handled.cmd = "start" /\ handled.ok
  /\ last_activity = now /\ now > 0

\* C12 (as claimed): /prices whose vendor call failed, by a status other than
\* 200 or by a network exception, has replied with a failure message, sent no
\* price line and let no exception out of the handler.
C12_PricesFailureReplied ==
  (handled.cmd = "prices" /\ handled.failure # "none") =>
    /\ handled.reply \in {"no_products", "no_prices"}
    /\ handled.lines = 0

\* what does hold: a status other than 200 is answered with the failure message
C12_Non200Replied ==
  (handled.cmd = "prices" /\ handled.failure = "non200") =>
    /\ handled.reply \in {"no_products", "no_prices"}
    /\ handled.lines = 0

\* C13: a notified change is sent to every admin whichever sends fail; a
\* failed send leaves the cycle running and the observed price stored; and an
\* offer whose notification failed is not notified again when its price is
\* observed unchanged.
C13_SendFailureIsolated ==
  /\ (cur.valid /\ cur.old # None /\ cur.old[1] # cur.price) => cur.attempted = ADMIN_IDS
  /\ (cur.valid /\ cur.failed # {}) =>
       /\ pollPc = "items" /\ cycle.result = "running"
       /\ DictGet(previous_prices, cur.offer) = Some(cur.price)
  /\ (cur.valid /\ cur.owed /\ cur.prev = Some(cur.price)) => cur.attempted = {}

\* C13 witness: the send to the first admin failed for a changed offer, while
\* another offer, whose notification had failed in an earlier cycle, was
\* observed unchanged and not notified again.
C13_Witness ==
  /\ cur.valid /\ cur.failed = {1} /\ cur.attempted = ADMIN_IDS
  /\ undelivered = Offers
  /\ cycle.changes = 1 /\ cycle.left = 0 /\ Len(pending) = 0
  /\ \A a \in ADMIN_IDS : cycle.sent[a] = 1

\* the strings of a list joined in order
RECURSIVE Concat(_)
Concat(ss) == IF ss = <<>> THEN <<>> ELSE Head(ss) \o Concat(Tail(ss))
\* every line followed by a newline, joined in order
Joined(lines) == Concat([i \in DOMAIN lines |-> lines[i] \o <<Newline>>])
\* every line fits a block together with its newline
LinesFit(lines, max_len) == \A i \in DOMAIN lines : Len(lines[i]) + 1 <= max_len
ChunksReturned == args.fn = "chunks" /\ returned # None

\* C14 (as claimed): for all lines and every max_len no block returned by
\* chunks is longer than max_len, and the blocks joined are the lines in
\* order, each followed by a newline and none split over two blocks.
C14_ChunksBounded ==
  ChunksReturned =>
    LET blocks == returned[1]
    IN  /\ \A i \in DOMAIN blocks : Len(blocks[i]) <= args.max_len
        /\ Concat(blocks) = Joined(args.lines)
        /\ \A i \in DOMAIN blocks : blocks[i] = <<>> \/ blocks[i][Len(blocks[i])] = Newline

\* C14 (amended): the blocks joined are always the lines in order, each
\* followed by a newline, and a block ends only where a line ends; when every
\* line with its newline fits max_len, no block is longer than max_len and no
\* block is empty.
C14_ChunksBoundedWhenLinesFit ==
  ChunksReturned =>
    LET blocks == returned[1]
    IN  /\ Concat(blocks) = Joined(args.lines)
        /\ \A i \in DOMAIN blocks : blocks[i] = <<>> \/ blocks[i][Len(blocks[i])] = Newline
        /\ LinesFit(args.lines, args.max_len) =>
             \A i \in DOMAIN blocks : 0 < Len(blocks[i]) /\ Len(blocks[i]) <= args.max_len

\* C14 witness: three lines that fit, packed into two blocks, the first of
\* them full with two lines.
C14_Witness ==
  /\ ChunksReturned
  /\ LinesFit(args.lines, args.max_len)
  /\ Len(args.lines) = 3
  /\ Len(returned[1]) = 2
  /\ Len(returned[1][1]) = args.max_len
  /\ \E i \in 1..(Len(returned[1][1]) - 1) : returned[1][1][i] = Newline

PickReturned == args.fn = "pick_buyer_price" /\ returned # None

\* C15: the buyer price returned by pick_buyer_price is the marketing price
\* (as parsed to an integer) when that is above 0, whatever the regular
\* price; otherwise it is the regular price as parsed, which is 0 when the
\* field is absent.  A whole number in the record is returned as it is.
C15_MarketingPricePreferred ==
  PickReturned =>
    LET p == args.item.price
        m == _to_int(p.marketing_price)
        r == _to_int(p.price)
        buyer_price == returned[1][1]
    IN  /\ m > 0 => buyer_price = m
        /\ m <= 0 => buyer_price = r
        /\ (p.marketing_price.t = "int" /\ p.marketing_price.v > 0) =>
             buyer_price = p.marketing_price.v
        /\ (p.marketing_price.t = "none" /\ p.price.t = "int") => buyer_price = p.price.v
        /\ (p.marketing_price.t \in {"none", "bad"} /\ p.price.t \in {"none", "bad"}) =>
             buyer_price = 0

\* C15 witness: a marketing price of 90 returned although the regular price,
\* 100, is there too.
C15_Witness ==
  /\ PickReturned
  /\ args.item.price.marketing_price = RawInt(90)
  /\ args.item.price.price = RawInt(100)
  /\ returned[1][1] = 90

\* C16: the watcher starts an alert only at an evaluation that finds the
\* silence above the threshold, the end of the alert sets last_activity to the
\* current time, and of any two alerts in a row the second comes more than the
\* threshold after the first.
C16_AlertsSpaced ==
  /\ [][(hbPc = "sleep" /\ hbPc' = "alerting") => now - last_activity > threshold]_vars
  /\ [][(hbPc = "alerting" /\ hbPc' = "sleep") => last_activity' = now]_vars
  /\ [](\A i \in DOMAIN alerts : i > 1 => alerts[i] - alerts[i - 1] > threshold)

\* C16 witness: a second alert has been sent, in a silence that outlasted the
\* first one, and the watcher has touched after it.
C16_Witness ==
  /\ Len(alerts) >= 2
  /\ alerts[Len(alerts)] = now
  /\ hbPc = "sleep" /\ last_activity = now
  /\ outage.kind = "list"

\* C17: when the send of the alert has raised, the watcher is still there:
\* it has touched last_activity and sleeps 60 s until its next evaluation.
C17_AlertFailureSwallowed ==
  /\ (alertFailed /\ hbPc = "sleep" /\ alerts # <<>> /\ alerts[Len(alerts)] = now) =>
       /\ last_activity = now
       /\ hbWake = now + WATCH_SLEEP
  /\ alerts # <<>> => hbPc \in {"sleep", "alerting"}

\* C17 witness: the watcher evaluates again, and alerts again, after an alert
\* whose send raised.
C17_Witness ==
  /\ alertFailed
  /\ Len(alerts) >= 2
  /\ hbPc = "alerting"

\* C18: the poll loop asks for the prices only once the product list has
\* arrived, compares and notifies only once the prices have arrived, and
\* begins a cycle only when the one before has ended and its sleep is over,
\* whatever the watcher and the handlers do in between.
C18_CycleStepsInOrder ==
  /\ [][(pollPc' = "prices" /\ pollPc # "prices") =>
          (pollPc = "products" /\ "ozon_products" \in cycle'.notes)]_vars
  /\ [][(pollPc' = "items" /\ pollPc # "items") =>
          (pollPc = "prices" /\ {"ozon_products", "ozon_prices"} \subseteq cycle'.notes)]_vars
  /\ [][(previous_prices' # previous_prices \/ (cur' # cur /\ cur'.valid)) =>
          (pollPc = "items" /\ {"ozon_products", "ozon_prices"} \subseteq cycle.notes)]_vars
  /\ [][(pollPc' = "products" /\ pollPc # "products") =>
          (pollPc = "sleep" /\ now >= pollWake /\ cycle.result # "running")]_vars
  /\ [][(pollPc' = "sleep" /\ pollPc # "sleep") => cycle'.result # "running"]_vars

\* C18 witness: a cycle that began after a failed one and its sleep compares
\* a price while /prices waits for its own prices and after the watcher has
\* sent an alert.
C18_Witness ==
  /\ pollPc = "items" /\ cur.valid
  /\ cmdPc = "prices"
  /\ alerts # <<>>

\* C19: previous_prices changes only in the item loop of the poll cycle, and
\* only at the offer of the item at hand: every other entry keeps its value and
\* no entry goes away.  No step of /prices or of the watcher changes it.
C19_OnlyItemLoopWrites ==
  /\ [][previous_prices' # previous_prices =>
          /\ pollPc = "items" /\ pending # <<>>
          /\ DOMAIN previous_prices' = DOMAIN previous_prices \cup {Head(pending).offer_id}
          /\ \A o \in DOMAIN previous_prices \ {Head(pending).offer_id} :
               previous_prices'[o] = previous_prices[o]]_vars
  /\ [][\A o \in DOMAIN previous_prices : o \in DOMAIN previous_prices']_vars
  /\ [][(cmdPc' # cmdPc \/ hbPc' # hbPc \/ hbWake' # hbWake
            \/ (handled' # handled /\ handled'.cmd # "none"))
          => previous_prices' = previous_prices]_vars

\* C19 witness: a cycle has stored the price of B and left the price stored
\* for A in the cycle before, after the watcher alerted and just after /prices
\* reported a price.
C19_Witness ==
  /\ cur.valid /\ cur.offer = "B"
  /\ DOMAIN previous_prices = Offers
  /\ last_cycle_at # None /\ last_cycle_at[1] < now
  /\ handled.cmd = "prices" /\ handled.reply = "lines" /\ handled.lines = 1
  /\ alerts # <<>>

====
